---- MODULE Spec2Model ----
(***************************************************************************)
(* Model of ml_service.py: the /predict and /data handlers, the            *)
(* StockPriceModel train/predict methods with the pandas feature           *)
(* derivation, and the background_training thread, interleaved at the      *)
(* granularity of accesses to the shared dicts `data_store`, `models` and  *)
(* to the shared StockPriceModel objects.                                  *)
(***************************************************************************)
EXTENDS Integers, Sequences, FiniteSets, Bags, TLC

(***************************************************************************)
(* Program constants.                                                      *)
(***************************************************************************)
\* rolling(window=5)
Window == 5
\* if len(X) < 10: "Not enough data for training"
MinTrainRows == 10
\* if len(data) >= 20 in background_training
RetrainThreshold == 20
\* self.predict(historical_data[-10:])
PreviewSlice == 10

(***************************************************************************)
(* Bounds of the model.                                                    *)
(***************************************************************************)
\* total number of HTTP requests (POST /predict and GET /data) served
MaxRequests == 2
\* longest list given to a StockPriceModel used on its own
MaxLen == 17

Symbols == {"AAA", "BBB"}

(***************************************************************************)
(* Observations.  A price that is JSON null (or absent) becomes NaN in the *)
(* DataFrame; NaN is the marker for it.                                    *)
(***************************************************************************)
NaN == -1

\* n observations with timestamps 1..n in list order, prices base+i, and a
\* null price at index nanAt (0: none)
Mono(n, base, nanAt) ==
  [i \in 1..n |-> [timestamp |-> i,
                   price |-> IF i = nanAt THEN NaN ELSE base + i,
                   volume |-> 10 + i]]

Reversed(seq) == [i \in 1..Len(seq) |-> seq[Len(seq) + 1 - i]]

\* 10 rows: 5 feature rows, below MinTrainRows
D10 == Mono(10, 100, 0)
\* 20 rows submitted newest first: 15 feature rows
D20r == Reversed(Mono(20, 200, 0))
\* 20 rows, null price at 16: feature rows 5..14 survive (10 rows), and no
\* row of the last 10 observations survives
DHole == Mono(20, 100, 16)

Batches == {D10, D20r, DHole}

(***************************************************************************)
(* pandas: sort_values, rolling mean, pct_change, shift, dropna.           *)
(***************************************************************************)
RECURSIVE InsertByTimestamp(_, _)
InsertByTimestamp(sorted, o) ==
  IF sorted = <<>> THEN <<o>>
  ELSE IF sorted[Len(sorted)].timestamp <= o.timestamp THEN Append(sorted, o)
  ELSE Append(InsertByTimestamp(SubSeq(sorted, 1, Len(sorted) - 1), o),
              sorted[Len(sorted)])

RECURSIVE SortByTimestamp(_)
\* df.sort_values('timestamp')
SortByTimestamp(seq) ==
  IF seq = <<>> THEN <<>>
  ELSE InsertByTimestamp(SortByTimestamp(SubSeq(seq, 1, Len(seq) - 1)),
                         seq[Len(seq)])

RECURSIVE SumPrices(_, _, _)
SumPrices(df, lo, hi) ==
  IF lo > hi THEN 0 ELSE df[hi].price + SumPrices(df, lo, hi - 1)

\* df['price'].rolling(window=5).mean() is NaN when the window is not full or
\* holds a NaN
SmaDefined(df, i) ==
  /\ i >= Window
  /\ \A j \in (i - Window + 1)..i : df[j].price # NaN

\* the mean as the fraction <<sum, Window>>
SMA_5(df, i) == <<SumPrices(df, i - Window + 1, i), Window>>

\* df['price'].pct_change(1): NaN on the first row and next to a NaN price
ChangeDefined(df, i) ==
  /\ i >= 2
  /\ df[i].price # NaN
  /\ df[i - 1].price # NaN

\* (price[i] - price[i-1]) / price[i-1] as a fraction
PriceChange1d(df, i) == <<df[i].price - df[i - 1].price, df[i - 1].price>>

\* variant: shift(-2)
TargetDefinedShiftTwo(df, i) ==
  /\ i + 2 <= Len(df)
  /\ df[i + 1].price # NaN

\* df['price'].shift(-1): NaN on the last row
TargetDefined(df, i) ==
  /\ i + 1 <= Len(df)
  /\ df[i + 1].price # NaN

\* the rows dropna() keeps
RowKept(df, i) ==
  /\ df[i].price # NaN
  /\ SmaDefined(df, i)
  /\ ChangeDefined(df, i)
  /\ TargetDefined(df, i)

FeatureRow(df, i) ==
  [timestamp |-> df[i].timestamp,
   price |-> df[i].price,
   volume |-> df[i].volume,
   SMA_5 |-> SMA_5(df, i),
   price_change_1d |-> PriceChange1d(df, i),
   target |-> df[i + 1].price]

RECURSIVE DropNa(_, _)
DropNa(df, n) ==
  IF n = 0 THEN <<>>
  ELSE IF RowKept(df, n) THEN Append(DropNa(df, n - 1), FeatureRow(df, n))
  ELSE DropNa(df, n - 1)

\* _prepare_features: the rows of X (with their targets y), in df order
PrepareFeatures(df) == DropNa(df, Len(df))

\* historical_data[-10:]
LastSlice(data) ==
  IF Len(data) <= PreviewSlice THEN data
  ELSE SubSeq(data, Len(data) - PreviewSlice + 1, Len(data))

\* the features of the batches the requests submit, computed once
FeatureCache ==
  [d \in Batches \cup {LastSlice(b) : b \in Batches} |->
     PrepareFeatures(SortByTimestamp(d))]

\* X (with y) of train / predict for the submitted list: lines 83-87, 109-113
FeaturesOf(data) ==
  IF data \in DOMAIN FeatureCache THEN FeatureCache[data]
  ELSE PrepareFeatures(SortByTimestamp(data))

(***************************************************************************)
(* sklearn as a capability.  A StandardScaler is unfitted or holds the     *)
(* statistics of the X it was fitted on; a RandomForestRegressor           *)
(* (random_state=42) is unfitted or holds the forest grown from            *)
(* (X_scaled, y), named by the scaler that scaled X and by y.              *)
(***************************************************************************)
Unfitted == <<>>

RECURSIVE SumOf(_, _)
SumOf(rows, f) ==
  IF rows = <<>> THEN 0
  ELSE rows[Len(rows)][f] + SumOf(SubSeq(rows, 1, Len(rows) - 1), f)

\* self.scaler.fit_transform(X): n_samples_seen_ and the column sums behind mean_
ScalerFit(X) ==
  <<Len(X), SumOf(X, "price"), SumOf(X, "volume")>>

\* self.model.fit(X_scaled, y)
ModelFit(scaler, y) == <<scaler, y>>

\* what train fits from the batches the requests submit, computed once
TrainCache ==
  [d \in Batches |-> [scaler |-> ScalerFit(FeaturesOf(d)),
                      y |-> SumOf(FeaturesOf(d), "target")]]

\* train lines 83-87: the X and y of the submitted list, as the fits use them
TrainingSet(data) ==
  IF data \in DOMAIN TrainCache THEN TrainCache[data]
  ELSE [scaler |-> ScalerFit(FeaturesOf(data)),
        y |-> SumOf(FeaturesOf(data), "target")]

\* StockPriceModel.__init__
NewStockPriceModel(symbol) ==
  [symbol |-> symbol, model |-> Unfitted, scaler |-> Unfitted]

\* variant: the threshold applied to the submitted rows instead of len(X)
NotEnoughForTrainingRawCount(data) == Len(data) < MinTrainRows

\* train: len(X) < 10
NotEnoughForTraining(data) == Len(FeaturesOf(data)) < MinTrainRows

\* variant: a count of the submitted rows, one too high, instead of X.empty
NotEnoughForPredictionRawCount(data) == Len(data) <= Window + 1

\* predict: X.empty
NotEnoughForPrediction(data) == FeaturesOf(data) = <<>>

\* train lines 95-99: predict(historical_data[-10:]) returns the error dict
\* and pred["predicted_price"] raises KeyError
PreviewRaises(data) == NotEnoughForPrediction(LastSlice(data))

\* train lines 91-92 on object obj
FitScaler(obj, data) == [obj EXCEPT !.scaler = TrainingSet(data).scaler]

\* variant: the estimator is left as it was
FitModelSkipped(obj, data) == obj

\* train line 92 on object obj
FitModel(obj, data) ==
  [obj EXCEPT !.model = ModelFit(obj.scaler, TrainingSet(data).y)]

(***************************************************************************)
(* Python dict with insertion order: a sequence of (key, value) entries.   *)
(***************************************************************************)
Keys(d) == {d[i].key : i \in 1..Len(d)}

Lookup(d, k) == d[CHOOSE i \in 1..Len(d) : d[i].key = k].value

\* d[k] = v
SetItem(d, k, v) ==
  IF k \in Keys(d)
  THEN [i \in 1..Len(d) |-> IF d[i].key = k THEN [key |-> k, value |-> v] ELSE d[i]]
  ELSE Append(d, [key |-> k, value |-> v])

(***************************************************************************)
(* State.                                                                  *)
(***************************************************************************)
VARIABLES
  data_store,   \* dict symbol -> submitted list
  models,       \* dict symbol -> StockPriceModel (a reference into heap[symbol])
  heap,         \* per symbol, the StockPriceModel objects that were ever in models
  inflight,     \* bag of the running predict_endpoint calls: position and locals
  sched,        \* position and locals of background_training
  response,     \* the HTTP response sent last
  accepted,     \* history: per symbol, the last accepted batch and their number
  nreq,         \* requests received so far
  call          \* one StockPriceModel used on its own: the object, the list
                \* given to its methods and what they returned

vars ==
  <<data_store, models, heap, inflight, sched, response, accepted, nreq, call>>

\* no StockPriceModel is used outside the service
NoCall == [op |-> "none", obj |-> <<>>, data |-> <<>>, result |-> <<>>]

NoObject == 0

SleepingSched ==
  [pc |-> "sleep", size |-> 0, pos |-> 0, symbol |-> "", data |-> <<>>,
   self |-> NoObject]

\* the loop body is over: back to the iterator (symbol and data are rebound
\* before they are read again)
NextOf(sc) == [sc EXCEPT !.pc = "next", !.symbol = "", !.data = <<>>,
                         !.self = NoObject]

Init ==
  /\ data_store = <<>>
  /\ models = [s \in {} |-> NoObject]
  /\ heap = [s \in Symbols |-> <<>>]
  /\ inflight = EmptyBag
  /\ sched = SleepingSched
  /\ response = [route |-> "", symbol |-> "", status |-> "none", body |-> <<>>]
  /\ accepted = [s \in {} |-> <<>>]
  /\ nreq = 0
  /\ call = NoCall

\* models[symbol] = obj
Register(m, symbol, obj) ==
  [s \in DOMAIN m \cup {symbol} |-> IF s = symbol THEN obj ELSE m[s]]

\* a new object enters the heap; its reference is the new length
Allocate(hp, obj) == [hp EXCEPT ![obj.symbol] = Append(@, obj)]

\* the call r moves on as r2
Step(r, r2) == inflight' = (inflight (-) SetToBag({r})) (+) SetToBag({r2})

\* the call r returns jsonify(...) with the given status
Respond(r, status) ==
  /\ inflight' = inflight (-) SetToBag({r})
  /\ response' = [route |-> "/predict", symbol |-> r.symbol, status |-> status,
                  body |-> <<>>]

Running == BagToSet(inflight)

(***************************************************************************)
(* POST /predict                                                           *)
(***************************************************************************)
\* variant: the data is not validated
InvalidInputSymbolOnly(symbol, data) == symbol = ""

\* if not symbol or not stock_data  ("" and <<>> stand for absent as well)
InvalidInput(symbol, data) == symbol = "" \/ data = <<>>

\* variant: the batch extends the stored list
StoreBatchAppends(store, symbol, data) ==
  SetItem(store, symbol,
          IF symbol \in Keys(store) THEN Lookup(store, symbol) \o data ELSE data)

\* data_store[symbol] = stock_data
StoreBatch(store, symbol, data) == SetItem(store, symbol, data)

\* history of the requests that name a symbol and carry observations
Record(acc, symbol, data) ==
  IF symbol = "" \/ data = <<>> THEN acc
  ELSE [s \in DOMAIN acc \cup {symbol} |->
          IF s = symbol
          THEN [data |-> data,
                count |-> IF s \in DOMAIN acc THEN acc[s].count + 1 ELSE 1]
          ELSE acc[s]]

\* lines 161-168: validation and the write of data_store
Ingest(symbol, data) ==
  /\ nreq < MaxRequests
  /\ nreq' = nreq + 1
  /\ accepted' = Record(accepted, symbol, data)
  /\ IF InvalidInput(symbol, data)
     THEN /\ response' = [route |-> "/predict", symbol |-> symbol,
                          status |-> "400", body |-> <<>>]
          /\ UNCHANGED <<data_store, inflight>>
     ELSE /\ inflight' = inflight (+) SetToBag({[pc |-> "check", symbol |-> symbol,
                            data |-> data, target |-> NoObject,
                            scalerRead |-> Unfitted]})
          /\ data_store' = StoreBatch(data_store, symbol, data)
          /\ UNCHANGED response
  /\ UNCHANGED <<models, heap, sched>>
  /\ UNCHANGED call

\* lines 171-173: the membership test; when absent, the candidate is made and
\* candidate.train(stock_data) is entered
CheckModel(r) ==
  /\ r.pc = "check"
  /\ Step(r, [r EXCEPT !.pc = IF r.symbol \notin DOMAIN models
                              THEN "train" ELSE "predict"])
  /\ UNCHANGED <<data_store, models, heap, sched, response, accepted, nreq>>
  /\ UNCHANGED call

\* variant: the handler trains the object it finds registered
TrainCandidateInPlace(r) ==
  LET candidate == NewStockPriceModel(r.symbol)
      m == models[r.symbol]
  IN
  /\ r.pc = "train"
  /\ IF NotEnoughForTraining(r.data)
     THEN /\ Respond(r, "pending_training")
          /\ UNCHANGED <<heap, models>>
     ELSE IF r.symbol \in DOMAIN models
     THEN /\ heap' = [heap EXCEPT ![r.symbol][m] =
                        FitModel(FitScaler(@, r.data), r.data)]
          /\ Step(r, [r EXCEPT !.pc = "predict", !.target = m])
          /\ UNCHANGED <<models, response>>
     ELSE /\ heap' = Allocate(heap, FitModel(FitScaler(candidate, r.data), r.data))
          /\ models' = Register(models, r.symbol, Len(heap[r.symbol]) + 1)
          /\ Step(r, [r EXCEPT !.pc = "predict",
                                !.target = Len(heap[r.symbol]) + 1])
          /\ UNCHANGED response
  /\ UNCHANGED <<data_store, sched, accepted, nreq>>
  /\ UNCHANGED call

\* lines 173-176: candidate.train(stock_data) and what follows its result
TrainCandidate(r) ==
  LET candidate == NewStockPriceModel(r.symbol)
      fitted == FitModel(FitScaler(candidate, r.data), r.data)
  IN
  /\ r.pc = "train"
  /\ IF NotEnoughForTraining(r.data)
     THEN /\ Respond(r, "pending_training")
          /\ UNCHANGED <<heap, models>>
     ELSE IF PreviewRaises(r.data)
     THEN /\ Respond(r, "500 KeyError")
          /\ UNCHANGED <<heap, models>>
     ELSE /\ heap' = Allocate(heap, fitted)
          /\ models' = Register(models, r.symbol, Len(heap[r.symbol]) + 1)
          /\ Step(r, [r EXCEPT !.pc = "predict",
                                !.target = Len(heap[r.symbol]) + 1])
          /\ UNCHANGED response
  /\ UNCHANGED <<data_store, sched, accepted, nreq>>
  /\ UNCHANGED call

\* the background thread is inside self.scaler.fit_transform(X) of object m of
\* the symbol: no lock orders that write with a read of the same scaler
ScalerBeingFitted(symbol, m) ==
  sched.pc = "scale" /\ sched.symbol = symbol /\ sched.self = m

\* lines 179, 109-121: models[symbol].predict up to scaler.transform.  A
\* transform that races with fit_transform finds the statistics of the
\* previous fit or none (NotFittedError, caught at line 119)
PredictTransform(r) ==
  LET m == models[r.symbol]
      scaler == heap[r.symbol][m].scaler
  IN
  /\ r.pc = "predict"
  /\ IF NotEnoughForPrediction(r.data)
     THEN Respond(r, "Not enough data for prediction")
     ELSE \/ /\ scaler = Unfitted \/ ScalerBeingFitted(r.symbol, m)
             /\ Respond(r, "Model not yet trained")
          \/ /\ scaler # Unfitted
             /\ Step(r, [r EXCEPT !.pc = "estimate", !.target = m,
                                   !.scalerRead = scaler])
             /\ UNCHANGED response
  /\ UNCHANGED <<data_store, models, heap, sched, accepted, nreq>>
  /\ UNCHANGED call

\* lines 123-132, 180-182: self.model.predict and the response
PredictEstimate(r) ==
  /\ r.pc = "estimate"
  /\ IF heap[r.symbol][r.target].model = Unfitted
     THEN Respond(r, "500 NotFittedError")
     ELSE Respond(r, "prediction")
  /\ UNCHANGED <<data_store, models, heap, sched, accepted, nreq>>
  /\ UNCHANGED call

(***************************************************************************)
(* GET /data/<symbol>                                                      *)
(***************************************************************************)
\* variant: an unknown symbol reads as an empty list
get_dataEmptySuccess(store, symbol) ==
  [route |-> "/data", symbol |-> symbol, status |-> "200",
   body |-> IF symbol \in Keys(store) THEN Lookup(store, symbol) ELSE <<>>]

\* lines 190-192
get_data(store, symbol) ==
  IF symbol \notin Keys(store)
  THEN [route |-> "/data", symbol |-> symbol, status |-> "404", body |-> <<>>]
  ELSE [route |-> "/data", symbol |-> symbol, status |-> "200",
        body |-> Lookup(store, symbol)]

GetData(symbol) ==
  /\ nreq < MaxRequests
  /\ nreq' = nreq + 1
  /\ response' = get_data(data_store, symbol)
  /\ UNCHANGED <<data_store, models, heap, inflight, sched, accepted>>
  /\ UNCHANGED call

(***************************************************************************)
(* background_training                                                     *)
(***************************************************************************)
\* time.sleep(30) returns; for ... in data_store.items() makes its iterator
Wake ==
  /\ sched.pc = "sleep"
  /\ sched' = [sched EXCEPT !.pc = "next", !.size = Len(data_store), !.pos = 0]
  /\ UNCHANGED <<data_store, models, heap, inflight, response, accepted, nreq>>
  /\ UNCHANGED call

\* the iterator's next(): RuntimeError when the dict changed size, else the
\* next entry and the test len(data) >= 20, else the end of the scan
NextItem ==
  /\ sched.pc = "next"
  /\ IF Len(data_store) # sched.size
     THEN sched' = [SleepingSched EXCEPT !.pc = "RuntimeError"]
     ELSE IF sched.pos = sched.size
     THEN sched' = SleepingSched
     ELSE LET e == data_store[sched.pos + 1]
          IN IF Len(e.value) >= RetrainThreshold
             THEN sched' = [sched EXCEPT !.pc = "check", !.pos = sched.pos + 1,
                                         !.symbol = e.key, !.data = e.value]
             ELSE sched' = [sched EXCEPT !.pos = sched.pos + 1]
  /\ UNCHANGED <<data_store, models, heap, inflight, response, accepted, nreq>>
  /\ UNCHANGED call

\* line 142: if symbol not in models
SchedCheck ==
  /\ sched.pc = "check"
  /\ sched' = [sched EXCEPT !.pc = IF sched.symbol \notin DOMAIN models
                                   THEN "create" ELSE "train"]
  /\ UNCHANGED <<data_store, models, heap, inflight, response, accepted, nreq>>
  /\ UNCHANGED call

\* line 143: models[symbol] = StockPriceModel(symbol)
SchedCreate ==
  /\ sched.pc = "create"
  /\ heap' = Allocate(heap, NewStockPriceModel(sched.symbol))
  /\ models' = Register(models, sched.symbol, Len(heap[sched.symbol]) + 1)
  /\ sched' = [sched EXCEPT !.pc = "train"]
  /\ UNCHANGED <<data_store, inflight, response, accepted, nreq>>
  /\ UNCHANGED call

\* line 144, train lines 83-89: models[symbol].train(data) up to the test of
\* len(X); on success the call enters self.scaler.fit_transform(X)
SchedTrain ==
  /\ sched.pc = "train"
  /\ IF NotEnoughForTraining(sched.data)
     THEN sched' = NextOf(sched)
     ELSE sched' = [sched EXCEPT !.pc = "scale", !.self = models[sched.symbol]]
  /\ UNCHANGED <<data_store, models, heap, inflight, response, accepted, nreq>>
  /\ UNCHANGED call

\* variant: the fit reads data_store again instead of the bound list
SchedTrainScalerRereads ==
  /\ sched.pc = "scale"
  /\ heap' = [heap EXCEPT ![sched.symbol][sched.self] =
                 FitScaler(@, Lookup(data_store, sched.symbol))]
  /\ sched' = [sched EXCEPT !.pc = "fit"]
  /\ UNCHANGED <<data_store, models, inflight, response, accepted, nreq>>
  /\ UNCHANGED call

\* train line 91: self.scaler.fit_transform(X) returns
SchedTrainScaler ==
  /\ sched.pc = "scale"
  /\ heap' = [heap EXCEPT ![sched.symbol][sched.self] = FitScaler(@, sched.data)]
  /\ sched' = [sched EXCEPT !.pc = "fit"]
  /\ UNCHANGED <<data_store, models, inflight, response, accepted, nreq>>
  /\ UNCHANGED call

\* train lines 92-101: self.model.fit, then the preview predict; line 145
SchedTrainModel ==
  /\ sched.pc = "fit"
  /\ heap' = [heap EXCEPT ![sched.symbol][sched.self] = FitModel(@, sched.data)]
  /\ IF PreviewRaises(sched.data)
     THEN sched' = [SleepingSched EXCEPT !.pc = "KeyError"]
     ELSE sched' = NextOf(sched)
  /\ UNCHANGED <<data_store, models, inflight, response, accepted, nreq>>
  /\ UNCHANGED call

Next ==
  \/ \E symbol \in Symbols \cup {""}, data \in Batches \cup {<<>>} :
       Ingest(symbol, data)
  \/ \E r \in Running : CheckModel(r)
  \/ \E r \in Running : TrainCandidate(r)
  \/ \E r \in Running : PredictTransform(r)
  \/ \E r \in Running : PredictEstimate(r)
  \/ \E symbol \in Symbols : GetData(symbol)
  \/ Wake
  \/ NextItem
  \/ SchedCheck
  \/ SchedCreate
  \/ SchedTrain
  \/ SchedTrainScaler
  \/ SchedTrainModel

Spec == Init /\ [][Next]_vars

\* the steps of the background thread and of the running request threads
SchedStep ==
  \/ Wake \/ NextItem \/ SchedCheck \/ SchedCreate
  \/ SchedTrain \/ SchedTrainScaler \/ SchedTrainModel

RequestStep ==
  \E r \in Running :
    CheckModel(r) \/ TrainCandidate(r) \/ PredictTransform(r) \/ PredictEstimate(r)

\* every started thread keeps being scheduled, and time.sleep(30) returns
FairSpec == Spec /\ WF_vars(SchedStep) /\ WF_vars(RequestStep)

(***************************************************************************)
(* One StockPriceModel used on its own: train and predict as functions of  *)
(* the object and of the list they are given.                              *)
(***************************************************************************)
\* variant: the last element of the list as given
CurrentPriceUnsorted(data) == data[Len(data)].price

\* df['price'].iloc[-1] of the sorted frame: lines 94 and 124
CurrentPrice(data) == SortByTimestamp(data)[Len(data)].price

NoResult == [status |-> "none", current_price |-> 0, X |-> <<>>]

\* what train returns or raises, with the X it derived
TrainReturn(data) ==
  IF NotEnoughForTraining(data)
  THEN [status |-> "Not enough data for training", current_price |-> 0,
        X |-> FeaturesOf(data)]
  ELSE IF PreviewRaises(data)
  THEN [status |-> "KeyError", current_price |-> 0, X |-> FeaturesOf(data)]
  ELSE [status |-> "success", current_price |-> CurrentPrice(data),
        X |-> FeaturesOf(data)]

\* the object after train(data)
Trained(obj, data) ==
  IF NotEnoughForTraining(data) THEN obj
  ELSE FitModel(FitScaler(obj, data), data)

\* what predict returns or raises, with X.iloc[-1:] when it reaches the
\* scaler
PredictReturn(obj, data) ==
  LET X == FeaturesOf(data)
  IN IF NotEnoughForPrediction(data)
     THEN [status |-> "Not enough data for prediction", current_price |-> 0,
           X |-> <<>>]
     ELSE IF obj.scaler = Unfitted
     THEN [status |-> "Model not yet trained", current_price |-> 0,
           X |-> <<X[Len(X)]>>]
     ELSE IF obj.model = Unfitted
     THEN [status |-> "NotFittedError", current_price |-> 0,
           X |-> <<X[Len(X)]>>]
     ELSE [status |-> "prediction", current_price |-> CurrentPrice(data),
           X |-> <<X[Len(X)]>>]

\* lists with distinct timestamps and valid prices, of every length
Series(n) == Mono(n, 100, 0)

\* the first observation moved to the end
Rotated(seq) == IF seq = <<>> THEN seq ELSE Append(Tail(seq), Head(seq))

\* those lists in three orders, and the batches of the requests
Inputs ==
  Batches \cup
  UNION {{Series(n), Reversed(Series(n)), Rotated(Series(n))} : n \in 1..MaxLen}

svars == <<data_store, models, heap, inflight, sched, response, accepted, nreq>>

PipelineInit ==
  /\ data_store = <<>>
  /\ models = [s \in {} |-> NoObject]
  /\ heap = [s \in Symbols |-> <<>>]
  /\ inflight = EmptyBag
  /\ sched = SleepingSched
  /\ response = [route |-> "", symbol |-> "", status |-> "none", body |-> <<>>]
  /\ accepted = [s \in {} |-> <<>>]
  /\ nreq = 0
  /\ call \in {[op |-> "new", obj |-> NewStockPriceModel("AAA"), data |-> d,
                 result |-> NoResult] : d \in Inputs}

\* obj.train(data)
CallTrain ==
  /\ call.op = "new"
  /\ call' = [op |-> "train", obj |-> Trained(call.obj, call.data),
              data |-> call.data, result |-> TrainReturn(call.data)]
  /\ UNCHANGED svars

\* obj.predict(data), on the new object or after its train
CallPredict ==
  /\ call.op \in {"new", "train"}
  /\ call' = [call EXCEPT !.op = "predict",
                          !.result = PredictReturn(call.obj, call.data)]
  /\ UNCHANGED svars

PipelineNext == CallTrain \/ CallPredict

PipelineSpec == PipelineInit /\ [][PipelineNext]_vars

(***************************************************************************)
(* Vocabulary of the properties.                                           *)
(***************************************************************************)
Fitted(obj) == obj.scaler # Unfitted /\ obj.model # Unfitted

\* the call r returned with this status in the step
Returned(r, status) ==
  /\ inflight' = inflight (-) SetToBag({r})
  /\ response'.route = "/predict"
  /\ response'.status = status

\* train calls in progress for a symbol: candidates in request threads and
\* the background thread inside its fits
TrainsInProgress(s) ==
  LET cands == {r \in Running : r.pc = "train" /\ r.symbol = s}
      RECURSIVE Count(_)
      Count(S) == IF S = {} THEN 0
                  ELSE LET r == CHOOSE x \in S : TRUE
                       IN CopiesIn(r, inflight) + Count(S \ {r})
  IN Count(cands) + (IF sched.pc \in {"scale", "fit"} /\ sched.symbol = s THEN 1 ELSE 0)

(***************************************************************************)
(* C1.  Two distinct StockPriceModel objects are never produced for one    *)
(* symbol: an object in models is never replaced by another object.        *)
(***************************************************************************)
C1_NoSecondInstance ==
  [][\A s \in DOMAIN models : models'[s] = models[s]]_vars

(***************************************************************************)
(* C2.  A predict that runs while the same object is trained uses the      *)
(* scaler and the estimator of one train: the estimator it runs was fitted *)
(* on the X scaled by the scaler it transformed with.                      *)
(***************************************************************************)
C2_PairNeverMixed ==
  [][\A r \in Running :
       PredictEstimate(r) =>
         LET obj == heap[r.symbol][r.target]
         IN obj.model # Unfitted /\ obj.model[1] = r.scalerRead]_vars

(***************************************************************************)
(* C3.  A training failure in a tick never ends the retrain loop: the      *)
(* background thread is never terminated by an exception out of train.     *)
(***************************************************************************)
C3_LoopSurvivesTrainFailure == sched.pc # "KeyError"

(***************************************************************************)
(* C4.  Once a symbol is stored with at least 20 observations that give    *)
(* enough training rows, the object registered for it is eventually        *)
(* fitted, whatever the other threads do.                                  *)
(***************************************************************************)
C4_EventuallyFitted ==
  \A s \in Symbols :
    (/\ s \in Keys(data_store)
     /\ Len(Lookup(data_store, s)) >= RetrainThreshold
     /\ Len(FeaturesOf(Lookup(data_store, s))) >= MinTrainRows)
    ~> (s \in DOMAIN models /\ Fitted(heap[s][models[s]]))

(***************************************************************************)
(* C5.  At most one train is in progress for a symbol at any time.         *)
(***************************************************************************)
C5_OneTrainPerSymbol == \A s \in Symbols : TrainsInProgress(s) <= 1

(***************************************************************************)
(* C6.  A valid POST /predict of batch D for a symbol leaves exactly D     *)
(* stored for the symbol, whatever was stored before (D itself included),  *)
(* and leaves what is stored for every other symbol as it was.             *)
(***************************************************************************)
C6_IngestReplaces ==
  [][\A symbol \in Symbols, data \in Batches :
       Ingest(symbol, data) =>
         /\ get_data(data_store', symbol).status = "200"
         /\ get_data(data_store', symbol).body = data
         /\ \A other \in Symbols \ {symbol} :
              get_data(data_store', other) = get_data(data_store, other)]_vars

\* the same batch was submitted twice for a symbol and is stored once
C6_SameBatchTwice ==
  \E r \in Running :
    /\ CopiesIn(r, inflight) = 2
    /\ Lookup(data_store, r.symbol) = r.data

(***************************************************************************)
(* C7.  GET /data/<symbol> answers 404 exactly when no request naming the  *)
(* symbol and carrying observations was received; otherwise it answers     *)
(* with the list stored by the last such request, which is not empty.      *)
(***************************************************************************)
C7_ReadHistory ==
  [][\A s \in Symbols :
       GetData(s) =>
         IF s \notin DOMAIN accepted
         THEN response'.status = "404"
         ELSE /\ response'.status = "200"
              /\ response'.body = accepted[s].data
              /\ response'.body # <<>>]_vars

\* a stored symbol was read while another symbol is unknown
C7_ReadOfStoredSymbol ==
  /\ response.route = "/data"
  /\ response.status = "200"
  /\ response.body # <<>>
  /\ \E other \in Symbols : get_data(data_store, other).status = "404"

(***************************************************************************)
(* C8.  A POST /predict without a symbol or without observations is        *)
(* answered 400 and changes neither data_store nor models (nor any         *)
(* registered object), and starts no work.                                 *)
(***************************************************************************)
C8_InvalidIngestRejected ==
  [][\A symbol \in Symbols \cup {""}, data \in Batches \cup {<<>>} :
       (symbol = "" \/ data = <<>>) /\ Ingest(symbol, data) =>
         /\ response'.route = "/predict"
         /\ response'.status = "400"
         /\ UNCHANGED <<data_store, models, heap, inflight>>]_vars

\* a request without observations was rejected for a symbol that is stored
C8_RejectedWhileStored ==
  /\ response.route = "/predict"
  /\ response.status = "400"
  /\ response.symbol \in Keys(data_store)

(***************************************************************************)
(* C9.  When the request found no model for its symbol and its batch       *)
(* gives fewer than 10 training rows, it is answered with the pending      *)
(* status, registers no model, and leaves its batch stored: unless a       *)
(* later request replaced it, GET /data returns exactly that batch.        *)
(***************************************************************************)
C9_PendingKeepsBatch ==
  [][\A r \in Running :
       TrainCandidate(r) /\ Len(FeaturesOf(r.data)) < MinTrainRows =>
         /\ Returned(r, "pending_training")
         /\ UNCHANGED <<models, heap, data_store>>
         /\ accepted[r.symbol].data = r.data =>
              get_data(data_store', r.symbol) =
                [route |-> "/data", symbol |-> r.symbol, status |-> "200",
                 body |-> r.data]]_vars

\* the answer was pending, the batch is readable and no model is registered
C9_PendingAnswered ==
  /\ response.status = "pending_training"
  /\ response.symbol \notin DOMAIN models
  /\ get_data(data_store, response.symbol).body = D10
  /\ inflight = EmptyBag

(***************************************************************************)
(* C10.  An object that completed a successful train stays fitted, and no  *)
(* predict fails with NotFitted on it: neither the predict of the request  *)
(* that trained it, right after the train, nor any later predict on it     *)
(* with sufficient data, a refit in progress included.                     *)
(***************************************************************************)
C10_StaysFitted ==
  [][/\ \A s \in Symbols : \A i \in 1..Len(heap[s]) :
          Fitted(heap[s][i]) => Fitted(heap'[s][i])
     /\ \A r \in Running :
          /\ PredictTransform(r)
          /\ FeaturesOf(r.data) # <<>>
          /\ r.target # NoObject \/ Fitted(heap[r.symbol][models[r.symbol]])
          => ~Returned(r, "Model not yet trained")
     /\ \A r \in Running :
          /\ PredictEstimate(r)
          /\ Fitted(heap[r.symbol][r.target])
          => ~Returned(r, "500 NotFittedError")]_vars

(***************************************************************************)
(* C11.  A predict on an object that never completed a train (its          *)
(* estimator or its scaler is unfitted), with a list that gives at least   *)
(* one feature row, ends with the NotFitted answer "Model not yet          *)
(* trained": not with a prediction and not with another failure.           *)
(***************************************************************************)
C11_UntrainedPredictNotFitted ==
  [][\A r \in Running :
       /\ PredictTransform(r) /\ FeaturesOf(r.data) # <<>>
            /\ heap[r.symbol][models[r.symbol]].scaler = Unfitted
          => Returned(r, "Model not yet trained")
       /\ PredictEstimate(r) /\ heap[r.symbol][r.target].model = Unfitted
          => Returned(r, "Model not yet trained")]_vars

(***************************************************************************)
(* C12.  No step of a request handler replaces an entry of models or       *)
(* changes the object an entry refers to.                                  *)
(***************************************************************************)
C12_RequestPathOnlyInitialises ==
  [][RequestStep =>
       \A s \in DOMAIN models :
         /\ models'[s] = models[s]
         /\ heap'[s][models[s]] = heap[s][models[s]]]_vars

(***************************************************************************)
(* C14.  An insertion into data_store during the scan of                   *)
(* background_training never ends the scan: the iteration never raises.    *)
(***************************************************************************)
C14_ScanSurvivesIngest == sched.pc # "RuntimeError"

\* ascending by timestamp
SortedByTimestamp(seq) ==
  \A i \in 1..(Len(seq) - 1) : seq[i].timestamp <= seq[i + 1].timestamp

(***************************************************************************)
(* C15 as claimed.  Every object registered in models is fitted.           *)
(***************************************************************************)
C15_NoUnfittedEntry ==
  \A s \in DOMAIN models : Fitted(heap[s][models[s]])

(***************************************************************************)
(* C15.  An unfitted object is put into models only by line 143 of         *)
(* background_training, which registers the object before it trains it:   *)
(* every object a request handler registers is fitted when registered.     *)
(***************************************************************************)
C15_OnlySchedulerRegistersUnfitted ==
  [][\A s \in DOMAIN models' :
       /\ s \notin DOMAIN models \/ models'[s] # models[s]
       /\ ~Fitted(heap'[s][models'[s]])
       => SchedCreate]_vars

\* a handler has just registered its trained candidate
C15_CandidateRegistered ==
  \E r \in Running :
    /\ r.pc = "predict"
    /\ r.target # NoObject
    /\ models[r.symbol] = r.target
    /\ Fitted(heap[r.symbol][r.target])

(***************************************************************************)
(* C16.  Every list stored in data_store is in ascending timestamp order.  *)
(***************************************************************************)
C16_StoredSorted ==
  \A i \in 1..Len(data_store) : SortedByTimestamp(data_store[i].value)

\* the positions of background_training inside the body of its loop
InLoopBody == {"check", "create", "train", "scale", "fit"}

(***************************************************************************)
(* C18.  The list a scan trains a symbol's object on is one whole batch:   *)
(* the list bound by the iteration is the batch of the last accepted       *)
(* request for the symbol, it stays the same list through the body of the  *)
(* loop whatever data_store becomes, and both fits are computed from it.   *)
(***************************************************************************)
C18_TickTrainsOnOneBatch ==
  [][/\ sched.pc = "next" /\ sched'.pc = "check" =>
          sched'.data = accepted[sched'.symbol].data
     /\ sched.pc \in InLoopBody /\ sched'.pc \in InLoopBody =>
          sched'.data = sched.data /\ sched'.symbol = sched.symbol
     /\ sched.pc = "scale" /\ sched'.pc = "fit" =>
          heap'[sched.symbol][sched.self].scaler = TrainingSet(sched.data).scaler
     /\ sched.pc = "fit" /\ sched'.pc # "fit" =>
          heap'[sched.symbol][sched.self].model =
            ModelFit(TrainingSet(sched.data).scaler, TrainingSet(sched.data).y)]_vars

\* the symbol's history was replaced while the scan trains on the old batch
C18_ReplacedDuringTick ==
  /\ sched.pc \in {"scale", "fit"}
  /\ Lookup(data_store, sched.symbol) # sched.data
  /\ heap[sched.symbol][sched.self].scaler = TrainingSet(sched.data).scaler

(***************************************************************************)
(* C19.  No object is trained by two threads at once: a step of a request  *)
(* (one that moves a running call) never changes an object that is in the  *)
(* heap of registered objects, the object it registers is a new one whose  *)
(* train has finished, and an object in the heap changes only as the       *)
(* object the background thread is training.                               *)
(***************************************************************************)
C19_OneTrainerPerInstance ==
  [][/\ inflight' # inflight =>
          /\ \A s \in Symbols : \A i \in 1..Len(heap[s]) :
               heap'[s][i] = heap[s][i]
          /\ \A s \in DOMAIN models' :
               s \notin DOMAIN models \/ models'[s] # models[s] =>
                 /\ Len(heap'[s]) = Len(heap[s]) + 1
                 /\ models'[s] = Len(heap'[s])
                 /\ Fitted(heap'[s][models'[s]])
     /\ \A s \in Symbols : \A i \in 1..Len(heap[s]) :
          heap'[s][i] # heap[s][i] =>
            sched.pc \in {"scale", "fit"} /\ sched.symbol = s /\ sched.self = i]_vars

\* a handler trains its candidate while the background thread trains the
\* registered object of the same symbol
C19_TwoTrainsTwoInstances ==
  \E r \in Running :
    /\ r.pc = "train"
    /\ ~NotEnoughForTraining(r.data)
    /\ sched.pc \in {"scale", "fit"}
    /\ sched.symbol = r.symbol

\* no price of the list is null
ValidPrices(seq) == \A i \in 1..Len(seq) : seq[i].price # NaN

\* the list is in strictly increasing timestamp order as given
StrictlyIncreasing(seq) ==
  \A i \in 1..(Len(seq) - 1) : seq[i].timestamp < seq[i + 1].timestamp

(***************************************************************************)
(* C13.  For a list of n >= 10 observations in strictly increasing         *)
(* timestamp order with valid prices, train derives exactly n - 5 rows,    *)
(* those of observations 5..n-1 in that order, and train succeeds exactly  *)
(* when n >= 15.                                                           *)
(***************************************************************************)
C13_TrainingRows ==
  /\ call.op = "train"
  /\ Len(call.data) >= 10
  /\ StrictlyIncreasing(call.data)
  /\ ValidPrices(call.data)
  =>
    LET n == Len(call.data)
        X == call.result.X
    IN /\ Len(X) = n - 5
       /\ \A i \in 1..Len(X) :
            /\ X[i].timestamp = call.data[i + 4].timestamp
            /\ X[i].price = call.data[i + 4].price
            /\ X[i].target = call.data[i + 5].price
       /\ call.result.status = "success" <=> n >= 15
       /\ Fitted(call.obj) <=> n >= 15

\* train succeeded at the threshold, on an ordered list of 15
C13_TrainAtThreshold ==
  /\ call.op = "train"
  /\ Len(call.data) = 15
  /\ StrictlyIncreasing(call.data)
  /\ call.result.status = "success"
  /\ Len(call.result.X) = 10

(***************************************************************************)
(* C17.  For a list of n observations with distinct timestamps and valid   *)
(* prices, predict answers "Not enough data for prediction" exactly when   *)
(* n < 6; for n >= 6 it goes on to the scaler with one row, the last row   *)
(* of X, and answers according to whether the object is fitted.            *)
(***************************************************************************)
C17_InferenceRows ==
  call.op = "predict" /\ ValidPrices(call.data) =>
    LET n == Len(call.data)
    IN /\ call.result.status = "Not enough data for prediction" <=> n < 6
       /\ n >= 6 =>
            /\ FeaturesOf(call.data) # <<>>
            /\ call.result.X = <<FeaturesOf(call.data)[n - 5]>>
            /\ call.result.status =
                 IF Fitted(call.obj) THEN "prediction" ELSE "Model not yet trained"

\* the shortest list predict accepts
C17_ShortestSufficient ==
  /\ call.op = "predict"
  /\ Len(call.data) = 6
  /\ call.result.status = "Model not yet trained"
  /\ Len(call.result.X) = 1

\* the observations of a list by rank of timestamp (distinct timestamps)
Newest(data) ==
  CHOOSE i \in 1..Len(data) :
    \A j \in 1..Len(data) : data[j].timestamp <= data[i].timestamp

SecondNewest(data) ==
  CHOOSE i \in 1..Len(data) \ {Newest(data)} :
    \A j \in 1..Len(data) \ {Newest(data)} :
      data[j].timestamp <= data[i].timestamp

(***************************************************************************)
(* C20 as claimed, for every list.  A prediction reports as current_price  *)
(* the price of the observation with the greatest timestamp, and the row   *)
(* given to the scaler and the estimator is the row of the observation     *)
(* with the second greatest timestamp.                                     *)
(***************************************************************************)
C20_AnyList ==
  call.op = "predict" /\ call.result.status = "prediction" =>
    /\ call.result.current_price = call.data[Newest(call.data)].price
    /\ call.result.X[1].timestamp = call.data[SecondNewest(call.data)].timestamp

(***************************************************************************)
(* C20.  For a list with distinct timestamps and valid prices, a           *)
(* prediction reports as current_price the price of the observation with   *)
(* the greatest timestamp, and the row given to the scaler and the         *)
(* estimator is the row of the observation with the second greatest        *)
(* timestamp (its target is the newest price).                             *)
(***************************************************************************)
C20_CurrentPriceAndRow ==
  /\ call.op = "predict"
  /\ call.result.status = "prediction"
  /\ ValidPrices(call.data)
  =>
    /\ call.result.current_price = call.data[Newest(call.data)].price
    /\ call.result.X[1].timestamp = call.data[SecondNewest(call.data)].timestamp
    /\ call.result.X[1].price = call.data[SecondNewest(call.data)].price
    /\ call.result.X[1].target = call.data[Newest(call.data)].price

\* a prediction from a list whose last element is not its newest observation
C20_PredictionFromUnorderedList ==
  /\ call.op = "predict"
  /\ call.result.status = "prediction"
  /\ ValidPrices(call.data)
  /\ Newest(call.data) # Len(call.data)
  /\ call.result.current_price # call.data[Len(call.data)].price

====
